---- MODULE Spec2Model ----
(***************************************************************************)
(* State-machine model of the category admin API of askbot               *)
(* (askbot/views/cats.py): the Category tree store, the Tag<->Category    *)
(* many-to-many relation, the AJAX handlers that mutate them and the      *)
(* two-phase deletion protocol with its confirmation token.               *)
(***************************************************************************)
EXTENDS Integers, Sequences, FiniteSets, TLC

\* ------------------------------------------------------------------ bounds
MaxCats == 2      \* primary keys the store hands out: 1..MaxCats
MaxTime == 1      \* clock ticks (one tick = one token validity window)
MaxTreeCats == 3  \* primary keys of the stores the tree serializer is given
CATEGORIES_MAX_TREE_DEPTH == 2   \* the live setting, fixed during a run

\* ------------------------------------------------------- values and inputs
None == -1        \* Python None: the value of an absent JSON key
\* names as the tests use them; the last one holds markup
Names == {"Root", "Child1", "<b>&"}
TagIds == {1, 2}
TagName(t) == IF t = 1 THEN "Tag1" ELSE "<Tag2>"
Users == {"anonymous", "user", "moderator", "administrator"}
Methods == {"GET", "POST"}
CatIds == 1..MaxCats
\* ids a client may send: none, zero, every id of the store, one that never exists
IdInputs == {None, 0} \cup CatIds \cup {MaxCats + 1}
NameInputs == Names \cup {""}

VARIABLES
    ENABLE_CATEGORIES,  \* askbot_settings.ENABLE_CATEGORIES
    Category,           \* the Category table: id -> [name, parent, level]
    next_id,            \* the next primary key of the Category table
    tag_categories,     \* Tag.categories: set of <<tag id, category id>>
    now,                \* the clock the token generator reads
    held,               \* what the client keeps of the last need_confirmation
                        \* response: the token, the category asked for, the tags listed
    pc,                 \* "idle": waiting for a request; "done": response sent
    request,            \* the request just handled: view, user, transport, method
    post_data,          \* its JSON body as the view parsed it
    response,           \* its response
    before,             \* the store as the request found it
    inflight            \* the requests handled at the same time, each between
                        \* its steps: what it asked, what it read, its response

vars == <<ENABLE_CATEGORIES, Category, next_id, tag_categories, now, held,
          pc, request, post_data, response, before, inflight>>

\* ------------------------------------------------------------------ tokens
\* A token is a timestamp and a keyed hash of the category and the timestamp;
\* the hash is modelled by the tuple of the values it is computed from.
NoToken == [ts |-> None, hash |-> <<>>]
FakeToken == [ts |-> 0, hash |-> <<"this is a fake token">>]

TOKEN_TIMEOUT == 1    \* the validity lifetime, in clock ticks

token_hash(node, ts) == <<node.id, node.name, node.parent, ts>>

make_token(node, clock) == [ts |-> clock, hash |-> token_hash(node, clock)]

check_token(node, token, clock) ==
    /\ token.ts # None
    /\ token.hash = token_hash(node, token.ts)
    /\ clock - token.ts < TOKEN_TIMEOUT

\* ------------------------------------------------------------- the stores
Truthy(x) == x # None /\ x # 0

\* Category.objects.get(id=...): the row with its primary key
Node(C, id) == [id |-> id, name |-> C[id].name, parent |-> C[id].parent,
                level |-> C[id].level]

name_exists(C, name) == \E c \in DOMAIN C : C[c].name = name

get_children(C, id) == {c \in DOMAIN C : C[c].parent = id}

is_leaf_node(C, id) == get_children(C, id) = {}

\* node.tags: the tags linked to a category
node_tags(T, id) == {t \in TagIds : <<t, id>> \in T}

RECURSIVE get_descendants(_, _)
get_descendants(C, ids) ==
    LET more == {c \in DOMAIN C : C[c].parent \in ids} \ ids
    IN  IF more = {} THEN ids ELSE get_descendants(C, ids \cup more)

\* mutant: delete() drops the join rows and leaves the category row
node_delete_keeps_row(C, T, id) ==
    [Category |-> C, tag_categories |-> {p \in T : p[2] # id}]

\* node.delete(): the row goes, and the ORM cascades to the rows that
\* reference it: its subtree and the join rows of the removed categories
node_delete(C, T, id) ==
    LET gone == get_descendants(C, {id})
    IN  [Category |-> [c \in DOMAIN C \ gone |-> C[c]],
         tag_categories |-> {p \in T : p[2] \notin gone}]

\* mutant: every association of the category's tags is removed
tags_clear_everywhere(T, id) == {p \in T : <<p[1], id>> \notin T}

\* node.tags.clear()
tags_clear(T, id) == {p \in T : p[2] # id}

\* mutant: the tag loses all its categories
tags_remove_from_all(T, id, tag_id) == {p \in T : p[1] # tag_id}

\* cat.tags.remove(tag)
tags_remove(T, id, tag_id) == T \ {<<tag_id, id>>}

\* -------------------------------------------------------------- responses
NoTags == {}
NoBody == <<>>
Json(status, message, token, tags) ==
    [http |-> 200, status |-> status, message |-> message, token |-> token,
     tags |-> tags, body |-> NoBody]
Http(code) == [http |-> code, status |-> "", message |-> "", token |-> NoToken,
               tags |-> NoTags, body |-> NoBody]
NoResponse == Http(0)

\* a view's result: its response and the store it leaves
Unchanged(resp) == [response |-> resp, Category |-> Category,
                    next_id |-> next_id, tag_categories |-> tag_categories]

\* except Exception, e: the JSON error envelope
Error(message) ==
    Unchanged(Json("error",
                   IF message = "" THEN "Oops, apologies - there was some error"
                   ELSE message,
                   NoToken, NoTags))

NoPost == [name |-> "", parent |-> None, id |-> None, tag_id |-> None,
           cat_id |-> None, token |-> NoToken]
NoRequest == [view |-> "", user |-> "anonymous", ajax |-> FALSE, method |-> "GET"]
NoBefore == [Category |-> <<>>, tag_categories |-> {}]
NoHeld == [token |-> NoToken, id |-> None, tags |-> NoTags]

\* the requests in progress at the same time
Workers == {1, 2}
NoRead == [id |-> None, name |-> "", parent |-> None, level |-> 0]
NoFlight == [stage |-> "idle", view |-> "", post |-> NoPost, read |-> NoRead,
             response |-> NoResponse]
NoInflight == [w \in Workers |-> NoFlight]

\* ------------------------------------------------------------ decorators
\* mutant: moderators pass, as they do in remove_tag_from_category
admin_ajax_post_moderators_too(req, view_result) ==
    IF ~ENABLE_CATEGORIES THEN Unchanged(Http(404))
    ELSE IF ~req.ajax THEN Unchanged(Http(302))
    ELSE IF req.method # "POST" THEN Error("must use POST request")
    ELSE IF req.user = "anonymous"
        THEN Error("Sorry, but anonymous users cannot access this view")
    ELSE IF req.user \notin {"administrator", "moderator"}
        THEN Error("Sorry, but you cannot access this view")
    ELSE view_result

\* mutant: the transport is not looked at
admin_ajax_post_any_transport(req, view_result) ==
    IF ~ENABLE_CATEGORIES THEN Unchanged(Http(404))
    ELSE IF req.method # "POST" THEN Error("must use POST request")
    ELSE IF req.user = "anonymous"
        THEN Error("Sorry, but anonymous users cannot access this view")
    ELSE IF req.user # "administrator"
        THEN Error("Sorry, but you cannot access this view")
    ELSE view_result

\* mutant: the feature flag is looked at after the permission checks
admin_ajax_post_flag_last(req, view_result) ==
    IF ~req.ajax THEN Unchanged(Http(302))
    ELSE IF req.method # "POST" THEN Error("must use POST request")
    ELSE IF req.user = "anonymous"
        THEN Error("Sorry, but anonymous users cannot access this view")
    ELSE IF req.user # "administrator"
        THEN Error("Sorry, but you cannot access this view")
    ELSE IF ~ENABLE_CATEGORIES THEN Unchanged(Http(404))
    ELSE view_result

\* admin_ajax_post: the feature flag, the transport, the method and the role
\* are checked in this order before the view runs
admin_ajax_post(req, view_result) ==
    IF ~ENABLE_CATEGORIES THEN Unchanged(Http(404))
    ELSE IF ~req.ajax THEN Unchanged(Http(302))
    ELSE IF req.method # "POST" THEN Error("must use POST request")
    ELSE IF req.user = "anonymous"
        THEN Error("Sorry, but anonymous users cannot access this view")
    ELSE IF req.user # "administrator"
        THEN Error("Sorry, but you cannot access this view")
    ELSE view_result

\* does the decorated view run for this request
admin_ajax_post_passes(req) ==
    /\ ENABLE_CATEGORIES
    /\ req.ajax
    /\ req.method = "POST"
    /\ req.user = "administrator"

\* ------------------------------------------------------------------ views
\* mutant: the level is taken as one based
too_deep_one_based(parent_level) ==
    parent_level + 1 >= CATEGORIES_MAX_TREE_DEPTH - 1

\* mutant: a child may sit at the level the setting names
too_deep_past_limit(parent_level) == parent_level >= CATEGORIES_MAX_TREE_DEPTH

\* the depth test of add_category; mptt levels are zero based
too_deep(parent_level) == parent_level >= CATEGORIES_MAX_TREE_DEPTH - 1

\* the row get_or_create inserts: the store assigns the key, the tree
\* library the level
objects_create(name, parent) ==
    [created |-> TRUE,
     Category |-> [c \in DOMAIN Category \cup {next_id} |->
                     IF c = next_id
                     THEN [name |-> name, parent |-> parent,
                           level |-> IF parent = None THEN 0
                                     ELSE Category[parent].level + 1]
                     ELSE Category[c]],
     next_id |-> next_id + 1]

\* mutant: the name is looked up among the children of the parent only
get_or_create_per_parent(name, parent) ==
    IF \E c \in DOMAIN Category :
          Category[c].name = name /\ Category[c].parent = parent
    THEN [created |-> FALSE, Category |-> Category, next_id |-> next_id]
    ELSE objects_create(name, parent)

\* Category.objects.get_or_create(name=new_name, defaults={'parent': parent})
get_or_create(name, parent) ==
    IF name_exists(Category, name)
    THEN [created |-> FALSE, Category |-> Category, next_id |-> next_id]
    ELSE objects_create(name, parent)

\* mutant: the parent is not looked up before the row is inserted under it
add_category_unchecked_parent(post) ==
    IF post.name = ""
    THEN Error("Missing or invalid new category name parameter")
    ELSE LET parent == IF Truthy(post.parent) THEN post.parent ELSE None
             level == IF parent \in DOMAIN Category
                      THEN Category[parent].level + 1 ELSE 0
         IN  IF name_exists(Category, post.name)
             THEN Error("There is already a category with that name")
             ELSE IF parent \in DOMAIN Category /\ too_deep(Category[parent].level)
             THEN Error("Invalid category nesting depth level")
             ELSE [response |-> Json("success", "", NoToken, NoTags),
                   Category |-> [c \in DOMAIN Category \cup {next_id} |->
                                   IF c = next_id
                                   THEN [name |-> post.name, parent |-> parent,
                                         level |-> level]
                                   ELSE Category[c]],
                   next_id |-> next_id + 1,
                   tag_categories |-> tag_categories]

add_category(post) ==
    LET parent_id == post.parent
        new_name == post.name
    IN  IF new_name = ""
        THEN Error("Missing or invalid new category name parameter")
        ELSE IF Truthy(parent_id) /\ parent_id \notin DOMAIN Category
        THEN Error("Requested parent category doesn't exist")
        ELSE LET parent == IF Truthy(parent_id) THEN parent_id ELSE None
             IN  IF parent # None /\ too_deep(Category[parent].level)
                 THEN Error("Invalid category nesting depth level")
                 ELSE LET got == get_or_create(new_name, parent)
                      IN  IF ~got.created
                          THEN Error("There is already a category with that name")
                          ELSE [response |-> Json("success", "", NoToken, NoTags),
                                Category |-> got.Category,
                                next_id |-> got.next_id,
                                tag_categories |-> tag_categories]

\* mutant: the name is saved before it is looked up among the others
rename_category_saves_first(post) ==
    IF post.name = "" \/ ~Truthy(post.id)
    THEN Error("Missing or invalid required parameter")
    ELSE IF post.id \notin DOMAIN Category
    THEN Error("Requested category doesn't exist")
    ELSE IF post.name = Category[post.id].name
    THEN Unchanged(Json("noop", "", NoToken, NoTags))
    ELSE [response |-> IF name_exists(Category, post.name)
                       THEN Json("error", "There is already a category with that name",
                                 NoToken, NoTags)
                       ELSE Json("success", "", NoToken, NoTags),
          Category |-> [Category EXCEPT ![post.id].name = post.name],
          next_id |-> next_id,
          tag_categories |-> tag_categories]

\* mutant: the name is not compared with the current one
rename_category_no_noop(post) ==
    IF post.name = "" \/ ~Truthy(post.id)
    THEN Error("Missing or invalid required parameter")
    ELSE IF post.id \notin DOMAIN Category
    THEN Error("Requested category doesn't exist")
    ELSE IF name_exists(Category, post.name)
    THEN Error("There is already a category with that name")
    ELSE [response |-> Json("success", "", NoToken, NoTags),
          Category |-> [Category EXCEPT ![post.id].name = post.name],
          next_id |-> next_id,
          tag_categories |-> tag_categories]

rename_category(post) ==
    LET new_name == post.name
        cat_id == post.id
    IN  IF new_name = "" \/ ~Truthy(cat_id)
        THEN Error("Missing or invalid required parameter")
        ELSE IF cat_id \notin DOMAIN Category
        THEN Error("Requested category doesn't exist")
        ELSE IF new_name # Category[cat_id].name
        THEN IF name_exists(Category, new_name)
             THEN Error("There is already a category with that name")
             ELSE [response |-> Json("success", "", NoToken, NoTags),
                   Category |-> [Category EXCEPT ![cat_id].name = new_name],
                   next_id |-> next_id,
                   tag_categories |-> tag_categories]
        ELSE Unchanged(Json("noop", "", NoToken, NoTags))

\* mutant: the category is not looked up before the tag is linked to it
add_tag_to_category_unchecked_cat(post) ==
    IF ~Truthy(post.tag_id) \/ post.cat_id = None
    THEN Error("Missing required parameter")
    ELSE IF post.tag_id \notin TagIds
    THEN Error("Requested tag doesn't exist")
    ELSE [response |-> Json("success", "", NoToken, NoTags),
          Category |-> Category,
          next_id |-> next_id,
          tag_categories |-> tag_categories \cup {<<post.tag_id, post.cat_id>>}]

\* mutant: a falsy cat_id counts as missing, as a falsy tag_id does
add_tag_to_category_falsy_cat_missing(post) ==
    IF ~Truthy(post.tag_id) \/ ~Truthy(post.cat_id)
    THEN Error("Missing required parameter")
    ELSE IF post.cat_id \notin DOMAIN Category
    THEN Error("Requested category doesn't exist")
    ELSE IF post.tag_id \notin TagIds
    THEN Error("Requested tag doesn't exist")
    ELSE [response |-> Json("success", "", NoToken, NoTags),
          Category |-> Category,
          next_id |-> next_id,
          tag_categories |-> tag_categories \cup {<<post.tag_id, post.cat_id>>}]

add_tag_to_category(post) ==
    LET tag_id == post.tag_id
        cat_id == post.cat_id
    IN  IF ~Truthy(tag_id) \/ cat_id = None
        THEN Error("Missing required parameter")
        ELSE IF cat_id \notin DOMAIN Category
        THEN Error("Requested category doesn't exist")
        ELSE IF tag_id \notin TagIds
        THEN Error("Requested tag doesn't exist")
        ELSE [response |-> Json("success", "", NoToken, NoTags),
              Category |-> Category,
              next_id |-> next_id,
              tag_categories |-> tag_categories \cup {<<tag_id, cat_id>>}]

\* mutant: every authenticated user passes
remove_tag_from_category_any_user(req, post) ==
    IF ~ENABLE_CATEGORIES THEN Unchanged(Http(404))
    ELSE IF ~req.ajax THEN Unchanged(Http(302))
    ELSE IF req.method # "POST" THEN Error("must use POST request")
    ELSE IF req.user = "anonymous"
        THEN Error("Sorry, but anonymous users cannot access this view")
    ELSE IF ~Truthy(post.tag_id) \/ post.cat_id = None
        THEN Error("Missing required parameter")
    ELSE IF post.cat_id \notin DOMAIN Category
        THEN Error("Requested category doesn't exist")
    ELSE IF post.tag_id \notin TagIds
        THEN Error("Requested tag doesn't exist")
    ELSE IF <<post.tag_id, post.cat_id>> \in tag_categories
        THEN [response |-> Json("success", "", NoToken, NoTags),
              Category |-> Category,
              next_id |-> next_id,
              tag_categories |-> tags_remove(tag_categories, post.cat_id, post.tag_id)]
    ELSE Unchanged(Json("noop", "", NoToken, NoTags))

remove_tag_from_category(req, post) ==
    IF ~ENABLE_CATEGORIES THEN Unchanged(Http(404))
    ELSE IF ~req.ajax THEN Unchanged(Http(302))
    ELSE IF req.method # "POST" THEN Error("must use POST request")
    ELSE IF req.user = "anonymous"
        THEN Error("Sorry, but anonymous users cannot access this view")
    ELSE IF req.user \notin {"administrator", "moderator"}
        THEN Error("Sorry, but you cannot access this view")
    ELSE LET tag_id == post.tag_id
             cat_id == post.cat_id
         IN  IF ~Truthy(tag_id) \/ cat_id = None
             THEN Error("Missing required parameter")
             ELSE IF cat_id \notin DOMAIN Category
             THEN Error("Requested category doesn't exist")
             ELSE IF tag_id \notin TagIds
             THEN Error("Requested tag doesn't exist")
             ELSE IF <<tag_id, cat_id>> \in tag_categories
             THEN [response |-> Json("success", "", NoToken, NoTags),
                   Category |-> Category,
                   next_id |-> next_id,
                   tag_categories |-> tags_remove(tag_categories, cat_id, tag_id)]
             ELSE Unchanged(Json("noop", "", NoToken, NoTags))

remove_tag_from_category_passes(req) ==
    /\ ENABLE_CATEGORIES
    /\ req.ajax
    /\ req.method = "POST"
    /\ req.user \in {"administrator", "moderator"}

\* mutant: the token is verified against any category of the store
token_rejected_any_node(node, token) ==
    /\ token # NoToken
    /\ ~\E c \in DOMAIN Category : check_token(Node(Category, c), token, now)

\* mutant: the token of the request is never verified
token_rejected_never(node, token) == FALSE

\* if token is not None: verify token + Category instance combination
token_rejected(node, token) ==
    token # NoToken /\ ~check_token(node, token, now)

\* mutant: a tagged category is deleted at once, without confirmation
delete_decision_no_confirmation(tag_count, has_children, token) ==
    IF tag_count = 0 /\ ~has_children THEN "delete"
    ELSE IF has_children THEN "cannot_delete_subcategories"
    ELSE "clear_and_delete"

\* mutant: a token in the request forces the deletion
delete_decision_token_forces(tag_count, has_children, token) ==
    IF tag_count = 0 /\ ~has_children THEN "delete"
    ELSE IF token # NoToken THEN "clear_and_delete"
    ELSE IF has_children THEN "cannot_delete_subcategories"
    ELSE "need_confirmation"

\* mutant: the tag count is tested before the children
delete_decision_tags_first(tag_count, has_children, token) ==
    IF tag_count = 0 /\ ~has_children THEN "delete"
    ELSE IF tag_count > 0
         THEN IF token = NoToken THEN "need_confirmation" ELSE "clear_and_delete"
    ELSE "cannot_delete_subcategories"

\* the branches of delete_category, in the order the code tests them
delete_decision(tag_count, has_children, token) ==
    IF tag_count = 0 /\ ~has_children THEN "delete"
    ELSE IF has_children THEN "cannot_delete_subcategories"
    ELSE IF token = NoToken THEN "need_confirmation"
    ELSE "clear_and_delete"

\* mutant: the names of all tags, not of the tags of the category
values_list_name_all_tags(T, id) == {TagName(t) : t \in TagIds}

\* list(node.tags.values_list('name', flat=True)): tag names are unique, the
\* order of the list is the store's, so the list is modelled by its set
values_list_name(T, id) == {TagName(t) : t \in node_tags(T, id)}

delete_category(post) ==
    LET cat_id == post.id
    IN  IF ~Truthy(cat_id)
        THEN Error("Missing or invalid required parameter")
        ELSE IF cat_id \notin DOMAIN Category
        THEN Error("Requested category doesn't exist")
        ELSE LET node == Node(Category, cat_id)
                 token == post.token
             IN  IF token_rejected(node, token)
                 THEN Error("Invalid token provided")
                 ELSE LET tag_count == Cardinality(node_tags(tag_categories, cat_id))
                          has_children == ~is_leaf_node(Category, cat_id)
                          branch == delete_decision(tag_count, has_children, token)
                      IN  CASE branch = "delete" ->
                                LET d == node_delete(Category, tag_categories, cat_id)
                                IN  [response |-> Json("success", "", NoToken, NoTags),
                                     Category |-> d.Category,
                                     next_id |-> next_id,
                                     tag_categories |-> d.tag_categories]
                            [] branch = "cannot_delete_subcategories" ->
                                Unchanged(Json("cannot_delete_subcategories", "",
                                               NoToken, NoTags))
                            [] branch = "need_confirmation" ->
                                Unchanged(Json("need_confirmation", "",
                                               make_token(node, now),
                                               values_list_name(tag_categories, cat_id)))
                            [] branch = "clear_and_delete" ->
                                LET d == node_delete(Category,
                                             tags_clear(tag_categories, cat_id), cat_id)
                                IN  [response |-> Json("success", "", NoToken, NoTags),
                                     Category |-> d.Category,
                                     next_id |-> next_id,
                                     tag_categories |-> d.tag_categories]

\* ----------------------------------------------------------- read views
\* django.utils.html.escape: & < > " ' are replaced by their entities
escape_char(c) ==
    IF c = "&" THEN "&amp;"
    ELSE IF c = "<" THEN "&lt;"
    ELSE IF c = ">" THEN "&gt;"
    ELSE IF c = "\"" THEN "&quot;"
    ELSE IF c = "'" THEN "&#39;"
    ELSE c

RECURSIVE escape(_)
escape(text) ==
    IF Len(text) = 0 THEN ""
    ELSE escape_char(Head(text)) \o escape(Tail(text))

\* order_by('name'): names compare character by character, by code point
Collation ==
    "\"&'0123456789<>ABCDEFGHIJKLMNOPQRSTUVWXYZabcdefghijklmnopqrstuvwxyz|"
code_point(c) == CHOOSE i \in 1..Len(Collation) : SubSeq(Collation, i, i) = c

RECURSIVE name_less(_, _)
name_less(a, b) ==
    IF Len(b) = 0 THEN FALSE
    ELSE IF Len(a) = 0 THEN TRUE
    ELSE IF Head(a) # Head(b) THEN code_point(Head(a)) < code_point(Head(b))
    ELSE name_less(Tail(a), Tail(b))

\* the rows in the order of their keys
order_by_pk(C, ids) ==
    [i \in 1..Cardinality(ids) |->
        CHOOSE c \in ids : Cardinality({d \in ids : d < c}) = i - 1]

RECURSIVE order_by_name(_, _)
order_by_name(C, ids) ==
    IF ids = {} THEN <<>>
    ELSE LET first == CHOOSE c \in ids : \A d \in ids \ {c} :
                          \/ name_less(C[c].name, C[d].name)
                          \/ C[c].name = C[d].name /\ c < d
         IN  <<first>> \o order_by_name(C, ids \ {first})

\* the tree order of siblings and of roots: the order they were inserted in
RECURSIVE tree_order(_)
tree_order(ids) ==
    IF ids = {} THEN <<>>
    ELSE LET first == CHOOSE c \in ids : \A d \in ids : c <= d
         IN  <<first>> \o tree_order(ids \ {first})

\* the top-level nodes of cache_tree_children(Category.tree.all())
tree_roots(C) == tree_order({c \in DOMAIN C : C[c].parent = None})

\* mutant: the leaf test is inverted, no child is ever visited
recurse_tree_childless(C, node) ==
    [name |-> C[node].name, id |-> node, children |-> <<>>]

RECURSIVE recurse_tree(_, _)
recurse_tree(C, node) ==
    [name |-> C[node].name,
     id |-> node,
     children |-> IF ~is_leaf_node(C, node)
                  THEN LET kids == tree_order(get_children(C, node))
                       IN  [i \in 1..Len(kids) |-> recurse_tree(C, kids[i])]
                  ELSE <<>>]

generate_tree(C) ==
    LET roots == tree_roots(C)
    IN  IF roots # <<>> THEN recurse_tree(C, roots[1]) ELSE <<>>

\* a response whose content is not the JSON envelope of the admin views
Page(code, content) == [Http(code) EXCEPT !.body = content]

\* cats: the page with the tree widget
cats(req) ==
    IF ENABLE_CATEGORIES
    THEN Unchanged(Page(200, generate_tree(Category)))
    ELSE Unchanged(Http(404))

\* tag.categories.values('id', 'name') with the names escaped; ids are
\* unique, the order of the list is the store's, so the list is modelled by
\* its set
tag_cats(C, T, tag_id) ==
    {[id |-> c, name |-> escape(C[c].name)] : c \in {d \in DOMAIN C : <<tag_id, d>> \in T}}

\* mutant: the view is published whatever the feature flag
get_tag_categories_always_published(req, post) ==
    IF ~req.ajax THEN Unchanged(Http(302))
    ELSE IF req.method # "POST" THEN Error("must use POST request")
    ELSE IF ~Truthy(post.tag_id)
        THEN Error("Missing tag_id parameter")
    ELSE IF post.tag_id \notin TagIds
        THEN Error("Requested tag doesn't exist")
    ELSE Unchanged([Json("success", "", NoToken, NoTags) EXCEPT
                      !.body = tag_cats(Category, tag_categories, post.tag_id)])

get_tag_categories(req, post) ==
    IF ~ENABLE_CATEGORIES THEN Unchanged(Http(404))
    ELSE IF ~req.ajax THEN Unchanged(Http(302))
    ELSE IF req.method # "POST" THEN Error("must use POST request")
    ELSE LET tag_id == post.tag_id
         IN  IF ~Truthy(tag_id)
             THEN Error("Missing tag_id parameter")
             ELSE IF tag_id \notin TagIds
             THEN Error("Requested tag doesn't exist")
             ELSE Unchanged([Json("success", "", NoToken, NoTags) EXCEPT
                               !.body = tag_cats(Category, tag_categories, tag_id)])

\* '%(name)s|%(id)d\n'
category_line(C, c) == escape(C[c].name) \o "|" \o ToString(c) \o "\n"

get_categories(req) ==
    IF ~ENABLE_CATEGORIES THEN Unchanged(Http(404))
    ELSE IF req.method # "GET" THEN Unchanged(Http(405))
    ELSE IF req.user = "anonymous"
        THEN Unchanged(Page(403, "Sorry, but anonymous users cannot access this view"))
    ELSE IF req.user # "administrator"
        THEN Unchanged(Page(403, "Sorry, but you cannot access this view"))
    ELSE IF ~req.ajax
        THEN Unchanged(Page(403, "Sorry, but you cannot access this view"))
    ELSE LET vqs == order_by_name(Category, DOMAIN Category)
         IN  Unchanged(Page(200, [i \in 1..Len(vqs) |-> category_line(Category, vqs[i])]))

\* ------------------------------------------------------ content filter
\* The listing pages. The questions and the tags they carry are those of a
\* fixture: one question for each way of carrying the two tags.
QuestionIds == 1..4
question_tags(q) ==
    CASE q = 1 -> {1}
      [] q = 2 -> {1, 2}
      [] q = 3 -> {2}
      [] OTHER -> {}

\* the denormalized count of the questions that carry a tag
used_count(t) == Cardinality({q \in QuestionIds : t \in question_tags(q)})

PathSegments == {""} \cup Names \cup {"IDontExist"}

\* the rows of questions joined with the tags they carry, one row for each
\* question and tag of `wanted`, in the order of the keys
RECURSIVE join_rows(_)
join_rows(pairs) ==
    IF pairs = {} THEN <<>>
    ELSE LET first == CHOOSE p \in pairs : \A r \in pairs :
                          p[1] < r[1] \/ (p[1] = r[1] /\ p[2] <= r[2])
         IN  <<first[1]>> \o join_rows(pairs \ {first})

questions_with(wanted) ==
    join_rows({<<q, t>> \in QuestionIds \X TagIds :
                  t \in question_tags(q) /\ t \in wanted})

\* the rows without the repeated ones
RECURSIVE distinct(_)
distinct(rows) ==
    IF rows = <<>> THEN <<>>
    ELSE LET rest == distinct(Tail(rows))
         IN  IF \E i \in DOMAIN rest : rest[i] = Head(rows)
             THEN rest ELSE <<Head(rows)>> \o rest

\* mutant: the tags of the category alone, its descendants left out
filter_tags_target_only(C, T, c) == node_tags(T, c)

\* the union of the tags of a category and of all its descendants
filter_tags(C, T, c) ==
    UNION {node_tags(T, d) : d \in get_descendants(C, {c})}

\* the rows of a listing page: questions, or the tags in use
listing_rows(view, wanted) ==
    IF view = "questions" THEN distinct(questions_with(wanted))
    ELSE tree_order({t \in wanted : used_count(t) > 0})

\* the rows of a listing page that has no category in its path
unfiltered_rows(view) ==
    IF view = "questions" THEN tree_order(QuestionIds)
    ELSE tree_order({t \in TagIds : used_count(t) > 0})

\* mutant: the feature is tested before the path is looked at
listing_flag_first(view, segment) ==
    IF ~ENABLE_CATEGORIES THEN Unchanged(Http(404))
    ELSE IF segment = "" THEN Unchanged(Page(200, unfiltered_rows(view)))
    ELSE IF ~name_exists(Category, segment) THEN Unchanged(Http(404))
    ELSE LET c == CHOOSE c \in DOMAIN Category : Category[c].name = segment
         IN  Unchanged(Page(200,
                 listing_rows(view, filter_tags(Category, tag_categories, c))))

\* a listing page, with the category of the path when there is one
listing(view, segment) ==
    IF segment = ""
    THEN Unchanged(Page(200, unfiltered_rows(view)))
    ELSE IF ~ENABLE_CATEGORIES THEN Unchanged(Http(404))
    ELSE IF ~name_exists(Category, segment) THEN Unchanged(Http(404))
    ELSE LET c == CHOOSE c \in DOMAIN Category : Category[c].name = segment
         IN  Unchanged(Page(200,
                 listing_rows(view, filter_tags(Category, tag_categories, c))))

\* ---------------------------------------------------------------- actions
Init ==
    /\ ENABLE_CATEGORIES = TRUE
    /\ Category = <<>>
    /\ next_id = 1
    /\ tag_categories = {}
    /\ now = 0
    /\ held = NoHeld
    /\ pc = "idle"
    /\ request = NoRequest
    /\ post_data = NoPost
    /\ response = NoResponse
    /\ before = NoBefore
    /\ inflight = NoInflight

Requests(view) ==
    [view : {view}, user : Users, ajax : BOOLEAN, method : Methods]

TagIdInputs == {None} \cup TagIds \cup {3}

\* one request: the view's result is applied to the store and the response
\* goes to the client, who keeps the token of a need_confirmation response
\* or discards it
HandleWithin(req, post, result, keeps_token, max_keys) ==
    /\ pc = "idle"
    /\ (result.next_id # next_id) => (result.next_id <= max_keys + 1)
    /\ pc' = "done"
    /\ request' = req
    /\ post_data' = post
    /\ response' = result.response
    /\ before' = [Category |-> Category, tag_categories |-> tag_categories]
    /\ Category' = result.Category
    /\ next_id' = result.next_id
    /\ tag_categories' = result.tag_categories
    /\ held' = IF keeps_token /\ result.response.token # NoToken
               THEN [token |-> result.response.token, id |-> post.id,
                     tags |-> result.response.tags]
               ELSE held
    /\ UNCHANGED <<ENABLE_CATEGORIES, now, inflight>>

Handle(req, post, result, keeps_token) ==
    HandleWithin(req, post, result, keeps_token, MaxCats)

Serve(req, post, result) == Handle(req, post, result, TRUE)

\* the requests of an administrator's AJAX client
AdminRequests(view) ==
    [view : {view}, user : {"administrator"}, ajax : {TRUE}, method : {"POST"}]

\* the body of a request is read by the view alone: a request the checks
\* before the view turn away is served whatever its body holds
AddCategoryBy(clients) ==
    /\ pc = "idle"
    /\ \E req \in clients :
        IF admin_ajax_post_passes(req)
        THEN \E name \in NameInputs, parent \in IdInputs :
                LET post == [NoPost EXCEPT !.name = name, !.parent = parent]
                IN  Serve(req, post, admin_ajax_post(req, add_category(post)))
        ELSE Serve(req, NoPost, admin_ajax_post(req, add_category(NoPost)))

RenameCategoryBy(clients) ==
    /\ pc = "idle"
    /\ \E req \in clients :
        IF admin_ajax_post_passes(req)
        THEN \E name \in NameInputs, id \in IdInputs :
                LET post == [NoPost EXCEPT !.name = name, !.id = id]
                IN  Serve(req, post, admin_ajax_post(req, rename_category(post)))
        ELSE Serve(req, NoPost, admin_ajax_post(req, rename_category(NoPost)))

AddTagToCategoryBy(clients) ==
    /\ pc = "idle"
    /\ \E req \in clients :
        IF admin_ajax_post_passes(req)
        THEN \E tag_id \in TagIdInputs, cat_id \in IdInputs :
                LET post == [NoPost EXCEPT !.tag_id = tag_id, !.cat_id = cat_id]
                IN  Serve(req, post, admin_ajax_post(req, add_tag_to_category(post)))
        ELSE Serve(req, NoPost, admin_ajax_post(req, add_tag_to_category(NoPost)))

RemoveTagFromCategoryBy(clients) ==
    /\ pc = "idle"
    /\ \E req \in clients :
        IF remove_tag_from_category_passes(req)
        THEN \E tag_id \in TagIdInputs, cat_id \in IdInputs :
                LET post == [NoPost EXCEPT !.tag_id = tag_id, !.cat_id = cat_id]
                IN  Serve(req, post, remove_tag_from_category(req, post))
        ELSE Serve(req, NoPost, remove_tag_from_category(req, NoPost))

DeleteCategoryBy(clients) ==
    /\ pc = "idle"
    /\ \E req \in clients :
        IF admin_ajax_post_passes(req)
        THEN \E id \in IdInputs, token \in {NoToken, FakeToken, held.token} :
                LET post == [NoPost EXCEPT !.id = id, !.token = token]
                IN  Serve(req, post, admin_ajax_post(req, delete_category(post)))
        ELSE Serve(req, NoPost, admin_ajax_post(req, delete_category(NoPost)))

AddCategory == AddCategoryBy(Requests("add_category"))
RenameCategory == RenameCategoryBy(Requests("rename_category"))
AddTagToCategory == AddTagToCategoryBy(Requests("add_tag_to_category"))
RemoveTagFromCategory == RemoveTagFromCategoryBy(Requests("remove_tag_from_category"))
DeleteCategory == DeleteCategoryBy(Requests("delete_category"))

AdminAddCategory == AddCategoryBy(AdminRequests("add_category"))
AdminRenameCategory == RenameCategoryBy(AdminRequests("rename_category"))
AdminAddTagToCategory == AddTagToCategoryBy(AdminRequests("add_tag_to_category"))
AdminRemoveTagFromCategory ==
    RemoveTagFromCategoryBy(AdminRequests("remove_tag_from_category"))
AdminDeleteCategory == DeleteCategoryBy(AdminRequests("delete_category"))

\* the read views; they hand out no token
GetTagCategories ==
    /\ pc = "idle"
    /\ \E req \in Requests("get_tag_categories"), tag_id \in TagIdInputs :
        LET post == [NoPost EXCEPT !.tag_id = tag_id]
        IN  Serve(req, post, get_tag_categories(req, post))

GetCategories ==
    /\ pc = "idle"
    /\ \E req \in Requests("get_categories") : Serve(req, NoPost, get_categories(req))

Cats ==
    /\ pc = "idle"
    /\ \E req \in Requests("cats") : Serve(req, NoPost, cats(req))

\* Requests of any client, each with a body whether the view gets to read it
\* or not; the client discards the token of a need_confirmation response and
\* presents none it was given.
AnyAddCategory ==
    /\ pc = "idle"
    /\ \E req \in Requests("add_category"), name \in NameInputs, parent \in IdInputs :
        LET post == [NoPost EXCEPT !.name = name, !.parent = parent]
        IN  Handle(req, post, admin_ajax_post(req, add_category(post)), FALSE)

AnyRenameCategory ==
    /\ pc = "idle"
    /\ \E req \in Requests("rename_category"), name \in NameInputs, id \in IdInputs :
        LET post == [NoPost EXCEPT !.name = name, !.id = id]
        IN  Handle(req, post, admin_ajax_post(req, rename_category(post)), FALSE)

AnyAddTagToCategory ==
    /\ pc = "idle"
    /\ \E req \in Requests("add_tag_to_category"),
       tag_id \in TagIdInputs, cat_id \in IdInputs :
        LET post == [NoPost EXCEPT !.tag_id = tag_id, !.cat_id = cat_id]
        IN  Handle(req, post, admin_ajax_post(req, add_tag_to_category(post)), FALSE)

AnyRemoveTagFromCategory ==
    /\ pc = "idle"
    /\ \E req \in Requests("remove_tag_from_category"),
       tag_id \in TagIdInputs, cat_id \in IdInputs :
        LET post == [NoPost EXCEPT !.tag_id = tag_id, !.cat_id = cat_id]
        IN  Handle(req, post, remove_tag_from_category(req, post), FALSE)

AnyDeleteCategory ==
    /\ pc = "idle"
    /\ \E req \in Requests("delete_category"),
       id \in IdInputs, token \in {NoToken, FakeToken} :
        LET post == [NoPost EXCEPT !.id = id, !.token = token]
        IN  Handle(req, post, admin_ajax_post(req, delete_category(post)), FALSE)

\* the client has read the response; the server waits for the next request
Reply ==
    /\ pc = "done"
    /\ pc' = "idle"
    /\ request' = NoRequest
    /\ post_data' = NoPost
    /\ response' = NoResponse
    /\ before' = NoBefore
    /\ UNCHANGED <<ENABLE_CATEGORIES, Category, next_id, tag_categories, now, held,
                   inflight>>

\* a token validity window passes
Tick ==
    /\ pc = "idle"
    /\ now < MaxTime
    /\ now' = now + 1
    /\ UNCHANGED <<ENABLE_CATEGORIES, Category, next_id, tag_categories, held,
                   pc, request, post_data, response, before, inflight>>

\* askbot_settings.update('ENABLE_CATEGORIES', ...)
UpdateEnableCategories ==
    /\ pc = "idle"
    /\ ENABLE_CATEGORIES' = ~ENABLE_CATEGORIES
    /\ UNCHANGED <<Category, next_id, tag_categories, now, held,
                   pc, request, post_data, response, before, inflight>>

Next ==
    \/ AddCategory
    \/ RenameCategory
    \/ AddTagToCategory
    \/ RemoveTagFromCategory
    \/ DeleteCategory
    \/ GetTagCategories
    \/ GetCategories
    \/ Cats
    \/ Reply
    \/ Tick
    \/ UpdateEnableCategories

Spec == Init /\ [][Next]_vars

\* The runs in which every request comes from an administrator's AJAX client
\* and the feature stays on. The other requests and the setting leave the
\* stores, the clock and the client's token as they are, so these runs reach
\* every store the runs of Spec reach.
NextAdmin ==
    \/ AdminAddCategory
    \/ AdminRenameCategory
    \/ AdminAddTagToCategory
    \/ AdminRemoveTagFromCategory
    \/ AdminDeleteCategory
    \/ Reply
    \/ Tick

SpecAdmin == Init /\ [][NextAdmin]_vars

\* The stores the tree serializer can be given: every forest of up to
\* MaxTreeCats categories that add_category, rename_category and
\* delete_category can build. Keys are handed out in turn and some are gone
\* again, names are unique, a category is inserted as a root or under a
\* parent that is there and not too deep.
inserted(C, id, name, parent) ==
    [c \in DOMAIN C \cup {id} |->
        IF c = id
        THEN [name |-> name, parent |-> parent,
              level |-> IF parent = None THEN 0 ELSE C[parent].level + 1]
        ELSE C[c]]

RECURSIVE ForestsUpTo(_)
ForestsUpTo(n) ==
    IF n = 0 THEN {<<>>}
    ELSE LET smaller == ForestsUpTo(n - 1)
         IN  smaller \cup
             UNION {{inserted(C, n, name, parent) :
                        name \in {m \in Names : ~name_exists(C, m)},
                        parent \in {None} \cup
                                   {p \in DOMAIN C : ~too_deep(C[p].level)}} :
                    C \in smaller}

Forests == ForestsUpTo(MaxTreeCats)

InitTree ==
    /\ ENABLE_CATEGORIES = TRUE
    /\ Category \in Forests
    /\ next_id = MaxTreeCats + 1
    /\ tag_categories = {}
    /\ now = 0
    /\ held = NoHeld
    /\ pc = "idle"
    /\ request = NoRequest
    /\ post_data = NoPost
    /\ response = NoResponse
    /\ before = NoBefore
    /\ inflight = NoInflight

NextTree ==
    \/ Cats
    \/ Reply

SpecTree == InitTree /\ [][NextTree]_vars

\* The runs in which an administrator's AJAX client builds the tree alone:
\* add_category, rename_category and delete_category on up to MaxTreeCats
\* keys, no tag associated, and the tree page looked at in between.
TreeIdInputs == {None, 0} \cup (1..(MaxTreeCats + 1))

TreeAddCategory ==
    /\ pc = "idle"
    /\ \E req \in AdminRequests("add_category"),
          name \in NameInputs, parent \in TreeIdInputs :
        LET post == [NoPost EXCEPT !.name = name, !.parent = parent]
        IN  HandleWithin(req, post, admin_ajax_post(req, add_category(post)),
                         FALSE, MaxTreeCats)

TreeRenameCategory ==
    /\ pc = "idle"
    /\ \E req \in AdminRequests("rename_category"),
          name \in NameInputs, id \in TreeIdInputs :
        LET post == [NoPost EXCEPT !.name = name, !.id = id]
        IN  HandleWithin(req, post, admin_ajax_post(req, rename_category(post)),
                         FALSE, MaxTreeCats)

TreeDeleteCategory ==
    /\ pc = "idle"
    /\ \E req \in AdminRequests("delete_category"), id \in TreeIdInputs :
        LET post == [NoPost EXCEPT !.id = id]
        IN  HandleWithin(req, post, admin_ajax_post(req, delete_category(post)),
                         FALSE, MaxTreeCats)

TreeCats ==
    /\ pc = "idle"
    /\ \E req \in [view : {"cats"}, user : {"administrator"},
                   ajax : {FALSE}, method : {"GET"}] :
        Serve(req, NoPost, cats(req))

NextShape ==
    \/ TreeAddCategory
    \/ TreeRenameCategory
    \/ TreeDeleteCategory
    \/ TreeCats
    \/ Reply

SpecShape == Init /\ [][NextShape]_vars

\* ------------------------------------------------- concurrent requests
\* Two requests of an administrator's AJAX client handled at the same time.
\* Each view runs in two steps, split where the window of the NOTES is: the
\* step that fetches and validates, and the step that writes
\* with the instances fetched before. Nothing ties the two steps together:
\* the views open no transaction and take no lock.

\* add_category up to the depth test: the parent instance is fetched
add_category_check(post) ==
    LET parent_id == post.parent
        found == Truthy(parent_id) /\ parent_id \in DOMAIN Category
    IN  [passes |-> /\ post.name # ""
                    /\ Truthy(parent_id) => /\ found
                                            /\ ~too_deep(Category[parent_id].level),
         read |-> IF found THEN Node(Category, parent_id) ELSE NoRead,
         response |-> add_category(post).response]

\* get_or_create(name=new_name, defaults={'parent': parent}) with the parent
\* instance fetched before; the tree library takes the level from it
add_category_act(post, read) ==
    IF name_exists(Category, post.name)
    THEN Error("There is already a category with that name")
    ELSE [response |-> Json("success", "", NoToken, NoTags),
          Category |-> [c \in DOMAIN Category \cup {next_id} |->
                          IF c = next_id
                          THEN [name |-> post.name, parent |-> read.id,
                                level |-> IF read.id = None THEN 0
                                          ELSE read.level + 1]
                          ELSE Category[c]],
          next_id |-> next_id + 1,
          tag_categories |-> tag_categories]

\* rename_category up to the look-up of the new name
rename_category_check(post) ==
    LET found == Truthy(post.id) /\ post.id \in DOMAIN Category
    IN  [passes |-> /\ post.name # ""
                    /\ found
                    /\ post.name # Category[post.id].name
                    /\ ~name_exists(Category, post.name),
         read |-> IF found THEN Node(Category, post.id) ELSE NoRead,
         response |-> rename_category(post).response]

\* mutant: the name is looked up again as it is saved
rename_category_act_rechecks(post, read) ==
    IF name_exists(Category, post.name)
    THEN Error("There is already a category with that name")
    ELSE [response |-> Json("success", "", NoToken, NoTags),
          Category |-> [c \in DOMAIN Category \cup {read.id} |->
                          IF c = read.id
                          THEN [name |-> post.name, parent |-> read.parent,
                                level |-> read.level]
                          ELSE Category[c]],
          next_id |-> next_id,
          tag_categories |-> tag_categories]

\* node.name = new_name; node.save(): the row of the instance is written,
\* and written anew when it is gone
rename_category_act(post, read) ==
    [response |-> Json("success", "", NoToken, NoTags),
     Category |-> [c \in DOMAIN Category \cup {read.id} |->
                     IF c = read.id
                     THEN [name |-> post.name, parent |-> read.parent,
                           level |-> read.level]
                     ELSE Category[c]],
     next_id |-> next_id,
     tag_categories |-> tag_categories]

\* add_tag_to_category up to the fetch of the tag
add_tag_to_category_check(post) ==
    LET found == post.cat_id \in DOMAIN Category
    IN  [passes |-> /\ Truthy(post.tag_id)
                    /\ found
                    /\ post.tag_id \in TagIds,
         read |-> IF found THEN Node(Category, post.cat_id) ELSE NoRead,
         response |-> add_tag_to_category(post).response]

\* tag.categories.add(cat) with the category instance fetched before
add_tag_to_category_act(post, read) ==
    [response |-> Json("success", "", NoToken, NoTags),
     Category |-> Category,
     next_id |-> next_id,
     tag_categories |-> tag_categories \cup {<<post.tag_id, read.id>>}]

\* delete_category up to the decision; a request that does not delete
\* writes nothing
delete_category_check(post) ==
    LET found == Truthy(post.id) /\ post.id \in DOMAIN Category
    IN  [passes |-> /\ found
                    /\ ~token_rejected(Node(Category, post.id), post.token)
                    /\ delete_decision(
                           Cardinality(node_tags(tag_categories, post.id)),
                           ~is_leaf_node(Category, post.id), post.token) = "delete",
         read |-> IF found THEN Node(Category, post.id) ELSE NoRead,
         response |-> delete_category(post).response]

\* node.delete() of the instance fetched before: what references the row
\* when it is deleted goes with it
delete_category_act(post, read) ==
    LET d == node_delete(Category, tag_categories, read.id)
    IN  [response |-> Json("success", "", NoToken, NoTags),
         Category |-> d.Category,
         next_id |-> next_id,
         tag_categories |-> d.tag_categories]

RaceViews ==
    {"add_category", "rename_category", "add_tag_to_category", "delete_category"}

check_step(view, post) ==
    CASE view = "add_category" -> add_category_check(post)
      [] view = "rename_category" -> rename_category_check(post)
      [] view = "add_tag_to_category" -> add_tag_to_category_check(post)
      [] view = "delete_category" -> delete_category_check(post)

act_step(view, post, read) ==
    CASE view = "add_category" -> add_category_act(post, read)
      [] view = "rename_category" -> rename_category_act(post, read)
      [] view = "add_tag_to_category" -> add_tag_to_category_act(post, read)
      [] view = "delete_category" -> delete_category_act(post, read)

\* the bodies of the requests: every name, every key of the store and one
\* that names nothing, one tag
RaceIdInputs == {None} \cup CatIds \cup {MaxCats + 1}
RaceTagInputs == {CHOOSE t \in TagIds : \A u \in TagIds : t <= u}
RacePosts(view) ==
    CASE view = "add_category" ->
            {[NoPost EXCEPT !.name = name, !.parent = parent] :
                name \in NameInputs, parent \in RaceIdInputs}
      [] view = "rename_category" ->
            {[NoPost EXCEPT !.name = name, !.id = id] :
                name \in NameInputs, id \in RaceIdInputs}
      [] view = "add_tag_to_category" ->
            {[NoPost EXCEPT !.tag_id = tag_id, !.cat_id = cat_id] :
                tag_id \in RaceTagInputs, cat_id \in RaceIdInputs}
      [] view = "delete_category" ->
            {[NoPost EXCEPT !.id = id] : id \in RaceIdInputs}

\* the keys the requests in progress may still take
KeysAskedFor(w) ==
    Cardinality({v \in Workers \ {w} :
                    /\ inflight[v].stage = "checked"
                    /\ inflight[v].view = "add_category"})

RaceUnchanged == <<ENABLE_CATEGORIES, now, held, pc, request, post_data,
                   response, before>>

\* the first step of a request: it answers at once when it has nothing to
\* write, and otherwise holds what it fetched
RaceCheck(w) ==
    /\ inflight[w].stage = "idle"
    /\ \E view \in RaceViews : \E post \in RacePosts(view) :
        LET c == check_step(view, post)
        IN  /\ (c.passes /\ view = "add_category")
                => next_id + KeysAskedFor(w) <= MaxCats
            /\ inflight' = [inflight EXCEPT ![w] =
                   IF c.passes
                   THEN [stage |-> "checked", view |-> view, post |-> post,
                         read |-> c.read, response |-> NoResponse]
                   ELSE [stage |-> "done", view |-> view, post |-> post,
                         read |-> NoRead, response |-> c.response]]
    /\ UNCHANGED <<Category, next_id, tag_categories>>
    /\ UNCHANGED RaceUnchanged

\* the second step: the write, on the store as it is by now
RaceAct(w) ==
    /\ inflight[w].stage = "checked"
    /\ LET f == inflight[w]
           a == act_step(f.view, f.post, f.read)
       IN  /\ Category' = a.Category
           /\ next_id' = a.next_id
           /\ tag_categories' = a.tag_categories
           /\ inflight' = [inflight EXCEPT ![w].stage = "done",
                                           ![w].response = a.response]
    /\ UNCHANGED RaceUnchanged

\* a store that enforces its references refuses a write that names a row
\* which is gone; the exception becomes the error envelope
RaceRefused(w) ==
    /\ inflight[w].stage = "checked"
    /\ inflight[w].view # "delete_category"
    /\ inflight[w].read.id # None
    /\ inflight[w].read.id \notin DOMAIN Category
    /\ inflight' = [inflight EXCEPT ![w].stage = "done",
                                    ![w].response = Error("IntegrityError").response]
    /\ UNCHANGED <<Category, next_id, tag_categories>>
    /\ UNCHANGED RaceUnchanged

\* the client has read the response
RaceReply(w) ==
    /\ inflight[w].stage = "done"
    /\ inflight' = [inflight EXCEPT ![w] = NoFlight]
    /\ UNCHANGED <<Category, next_id, tag_categories>>
    /\ UNCHANGED RaceUnchanged

NextRace ==
    \/ \E w \in Workers : RaceCheck(w)
    \/ \E w \in Workers : RaceAct(w)
    \/ \E w \in Workers : RaceRefused(w)
    \/ \E w \in Workers : RaceReply(w)

SpecRace == Init /\ [][NextRace]_vars

\* The listing pages over every store of categories and associations: a
\* forest as above with any set of associations between its categories and
\* the tags. Anybody may ask for a listing page.
ListingRequests(view) ==
    [view : {view}, user : Users, ajax : {FALSE}, method : {"GET"}]

Questions ==
    /\ pc = "idle"
    /\ \E req \in ListingRequests("questions"), segment \in PathSegments :
        Serve(req, [NoPost EXCEPT !.name = segment], listing("questions", segment))

Tags ==
    /\ pc = "idle"
    /\ \E req \in ListingRequests("tags"), segment \in PathSegments :
        Serve(req, [NoPost EXCEPT !.name = segment], listing("tags", segment))

InitFilter ==
    /\ ENABLE_CATEGORIES = TRUE
    /\ Category \in Forests
    /\ next_id = MaxTreeCats + 1
    /\ tag_categories \in SUBSET (TagIds \X DOMAIN Category)
    /\ now = 0
    /\ held = NoHeld
    /\ pc = "idle"
    /\ request = NoRequest
    /\ post_data = NoPost
    /\ response = NoResponse
    /\ before = NoBefore
    /\ inflight = NoInflight

NextFilter ==
    \/ Questions
    \/ Tags
    \/ UpdateEnableCategories
    \/ Reply

SpecFilter == InitFilter /\ [][NextFilter]_vars

\* The runs in which any client sends any request with any body and the
\* feature is switched off and on, and no client confirms a deletion: a
\* tagged category goes once its tags were removed, so these runs too reach
\* every store.
NextAccess ==
    \/ AnyAddCategory
    \/ AnyRenameCategory
    \/ AnyAddTagToCategory
    \/ AnyRemoveTagFromCategory
    \/ AnyDeleteCategory
    \/ GetTagCategories
    \/ GetCategories
    \/ Cats
    \/ Reply
    \/ UpdateEnableCategories

SpecAccess == Init /\ [][NextAccess]_vars

\* ===================================================================
\* Properties. A state with pc = "done" shows one request: `request` and
\* `post_data` are what was asked, `before` is the store it found, the
\* store variables are what it left, `response` is the answer.
\* ===================================================================
ViewRan(view) ==
    /\ pc = "done"
    /\ request.view = view
    /\ request.user = "administrator"
    /\ request.ajax
    /\ request.method = "POST"
    /\ ENABLE_CATEGORIES

StoreUnchanged ==
    /\ Category = before.Category
    /\ tag_categories = before.tag_categories

TagsBefore(id) == {t \in TagIds : <<t, id>> \in before.tag_categories}
ChildrenBefore(id) ==
    {c \in DOMAIN before.Category : before.Category[c].parent = id}

\* the category row is gone and every other row is as it was
OnlyRowRemoved(id) ==
    /\ DOMAIN Category = DOMAIN before.Category \ {id}
    /\ \A c \in DOMAIN Category : Category[c] = before.Category[c]

\* delete_category ran on a category of the store
DeleteRanOn(id) ==
    /\ ViewRan("delete_category")
    /\ post_data.id = id
    /\ id \in DOMAIN before.Category

\* the token of the request is one the generator made for the category as
\* the request found it, less than a validity window ago
TokenValidFor(id) ==
    /\ post_data.token.ts # None
    /\ post_data.token.hash =
         <<id, before.Category[id].name, before.Category[id].parent,
           post_data.token.ts>>
    /\ now - post_data.token.ts < TOKEN_TIMEOUT

TokenAbsent == post_data.token = NoToken
TokenInvalidFor(id) == ~TokenAbsent /\ ~TokenValidFor(id)

InvalidTokenError ==
    /\ response.status = "error"
    /\ response.message = "Invalid token provided"
    /\ response.token = NoToken
    /\ StoreUnchanged

\* C1 (as stated): delete_category on an existing category with no tag and no
\* child deletes it and answers 'success' whatever the token of the request.
C1_AnyTokenDeletes ==
    \A id \in CatIds :
        (DeleteRanOn(id) /\ TagsBefore(id) = {} /\ ChildrenBefore(id) = {})
        => (response.status = "success" /\ id \notin DOMAIN Category)

\* C1 (amended): delete_category on an existing category with no tag and no
\* child deletes it and answers 'success' when the request has no token or a
\* token valid for the category; with an invalid token it answers the error
\* 'Invalid token provided' and deletes nothing.
C1_UntaggedLeafDeleted ==
    \A id \in CatIds :
        (DeleteRanOn(id) /\ TagsBefore(id) = {} /\ ChildrenBefore(id) = {})
        => IF TokenInvalidFor(id)
           THEN InvalidTokenError
           ELSE /\ response.status = "success"
                /\ OnlyRowRemoved(id)
                /\ tag_categories = before.tag_categories

\* an untagged leaf deleted by a request that carried a valid token
C1_Witness ==
    \E id \in CatIds :
        /\ DeleteRanOn(id) /\ TagsBefore(id) = {} /\ ChildrenBefore(id) = {}
        /\ TokenValidFor(id)
        /\ response.status = "success"
        /\ id \notin DOMAIN Category

\* C2 (as stated): delete_category on a category with a child always answers
\* 'cannot_delete_subcategories', for any tags and any token, and changes
\* nothing and issues no token.
C2_AlwaysCannotDelete ==
    \A id \in CatIds :
        (DeleteRanOn(id) /\ ChildrenBefore(id) # {})
        => /\ response.status = "cannot_delete_subcategories"
           /\ StoreUnchanged
           /\ response.token = NoToken

\* C2 (amended): delete_category on a category with a child never deletes it,
\* never changes a tag association and never issues a token; it answers
\* 'cannot_delete_subcategories' for any number of tags when the request has
\* no token or a valid one, and the error 'Invalid token provided' when the
\* token is invalid.
C2_ParentNeverDeleted ==
    \A id \in CatIds :
        (DeleteRanOn(id) /\ ChildrenBefore(id) # {})
        => /\ StoreUnchanged
           /\ response.token = NoToken
           /\ IF TokenInvalidFor(id)
              THEN InvalidTokenError
              ELSE response.status = "cannot_delete_subcategories"

\* a category with a child and a tag, asked to be deleted with a valid token
C2_Witness ==
    \E id \in CatIds :
        /\ DeleteRanOn(id) /\ ChildrenBefore(id) # {} /\ TagsBefore(id) # {}
        /\ TokenValidFor(id)
        /\ response.status = "cannot_delete_subcategories"

\* C3: a category that has a tag when it is deleted is deleted only by a
\* delete_category request for it that carries a token which an earlier
\* delete_category call returned in a 'need_confirmation' response for that
\* same category; no other request removes a tagged category.
C3_TaggedDeletedOnlyWithIssuedToken ==
    \A id \in CatIds :
        (/\ pc = "done"
         /\ id \in DOMAIN before.Category
         /\ id \notin DOMAIN Category
         /\ TagsBefore(id) # {})
        => /\ request.view = "delete_category"
           /\ post_data.id = id
           /\ post_data.token # NoToken
           /\ post_data.token = held.token
           /\ held.id = id

\* a tagged category was deleted
C3_Witness ==
    \E id \in CatIds :
        /\ pc = "done"
        /\ id \in DOMAIN before.Category
        /\ id \notin DOMAIN Category
        /\ TagsBefore(id) # {}
        /\ post_data.token = held.token

\* C4: delete_category on a childless category with a tag and no token in the
\* request answers 'need_confirmation' with a token and with the names of
\* exactly the tags of the category, and changes nothing.
C4_NeedConfirmation ==
    \A id \in CatIds :
        (DeleteRanOn(id) /\ ChildrenBefore(id) = {} /\ TagsBefore(id) # {}
         /\ TokenAbsent)
        => /\ response.status = "need_confirmation"
           /\ response.token # NoToken
           /\ response.tags = {TagName(t) : t \in TagsBefore(id)}
           /\ StoreUnchanged

\* confirmation asked for a category that has one of the two tags
C4_Witness ==
    \E id \in CatIds :
        /\ DeleteRanOn(id) /\ ChildrenBefore(id) = {} /\ TokenAbsent
        /\ Cardinality(TagsBefore(id)) = 1
        /\ response.status = "need_confirmation"

\* C5: delete_category on a childless category with a tag and a token valid
\* for it removes every association of the category, deletes the category and
\* answers 'success' with no token; the associations of the other categories
\* remain (the Tag rows are never touched by any view).
C5_ConfirmedDelete ==
    \A id \in CatIds :
        (DeleteRanOn(id) /\ ChildrenBefore(id) = {} /\ TagsBefore(id) # {}
         /\ TokenValidFor(id))
        => /\ response.status = "success"
           /\ response.token = NoToken
           /\ OnlyRowRemoved(id)
           /\ tag_categories = {p \in before.tag_categories : p[2] # id}

\* a confirmed delete of a category one of whose tags is also on another
\* category
C5_Witness ==
    \E id \in CatIds, other \in CatIds, t \in TagIds :
        /\ DeleteRanOn(id) /\ ChildrenBefore(id) = {} /\ TokenValidFor(id)
        /\ other # id
        /\ <<t, id>> \in before.tag_categories
        /\ <<t, other>> \in before.tag_categories
        /\ response.status = "success"

\* C6: delete_category on a childless category with a tag and an invalid or
\* corrupt token answers 'error' with the message 'Invalid token provided'
\* and no token, and leaves the category and its associations unchanged.
C6_InvalidToken ==
    \A id \in CatIds :
        (DeleteRanOn(id) /\ ChildrenBefore(id) = {} /\ TagsBefore(id) # {}
         /\ TokenInvalidFor(id))
        => InvalidTokenError

\* the corrupt token presented for a tagged childless category
C6_Witness ==
    \E id \in CatIds :
        /\ DeleteRanOn(id) /\ ChildrenBefore(id) = {} /\ TagsBefore(id) # {}
        /\ post_data.token = FakeToken
        /\ response.status = "error"

\* the request presents the token the client holds
PresentsHeldToken ==
    /\ post_data.token # NoToken
    /\ post_data.token = held.token

\* C7: a token issued for category A is accepted only with A's id and within
\* the validity window; presented with the id of another existing category B
\* it gets 'Invalid token provided' and B is not deleted.
C7_TokenOnlyForItsCategory ==
    \A id \in CatIds :
        /\ (DeleteRanOn(id) /\ PresentsHeldToken /\ held.id # id)
           => InvalidTokenError
        /\ (DeleteRanOn(id) /\ ~TokenAbsent /\ response.status # "error")
           => /\ post_data.token = held.token
              /\ held.id = id
              /\ now - post_data.token.ts < TOKEN_TIMEOUT

\* A's token, still good for A, presented for a tagged childless B
C7_Witness ==
    \E a \in CatIds, b \in CatIds :
        /\ DeleteRanOn(b) /\ PresentsHeldToken
        /\ held.id = a /\ a # b
        /\ a \in DOMAIN Category
        /\ check_token(Node(Category, a), held.token, now)
        /\ TagsBefore(b) # {} /\ ChildrenBefore(b) = {}
        /\ response.status = "error"
        /\ b \in DOMAIN Category

\* what became of the category since the token the client holds was issued
RenamedSinceIssue(id) == before.Category[id].name # held.token.hash[2]
TagsChangedSinceIssue(id) == {TagName(t) : t \in TagsBefore(id)} # held.tags

\* the request confirms the deletion of id with the token issued for id
ConfirmRanOn(id) ==
    /\ DeleteRanOn(id)
    /\ PresentsHeldToken
    /\ held.id = id

NamesUnique ==
    \A a \in DOMAIN Category, b \in DOMAIN Category :
        a # b => Category[a].name # Category[b].name

\* add_category ran with a name a category holds
AddRanWithTakenName ==
    /\ ViewRan("add_category")
    /\ post_data.name # ""
    /\ \E c \in DOMAIN before.Category : before.Category[c].name = post_data.name

\* rename_category ran on a category with a name another category holds
RenameRanWithTakenName ==
    /\ ViewRan("rename_category")
    /\ post_data.name # ""
    /\ post_data.id \in DOMAIN before.Category
    /\ \E c \in DOMAIN before.Category \ {post_data.id} :
          before.Category[c].name = post_data.name

DuplicateNameError ==
    /\ response.status = "error"
    /\ response.message = "There is already a category with that name"
    /\ StoreUnchanged

\* C9 (as stated): no two categories share a name, and an add or a rename to
\* a name another category holds answers the error 'There is already a
\* category with that name' whatever the parent or position.
C9_DuplicateAlwaysReported ==
    /\ NamesUnique
    /\ AddRanWithTakenName => DuplicateNameError
    /\ RenameRanWithTakenName => DuplicateNameError

\* C9 (amended): no two categories share a name, and an add or a rename to a
\* name another category holds answers an error and changes nothing. The
\* message is 'There is already a category with that name', except for an add
\* whose parent does not exist or is too deep: add_category reports the
\* parent first.
C9_NamesGloballyUnique ==
    /\ NamesUnique
    /\ AddRanWithTakenName
       => /\ response.status = "error"
          /\ StoreUnchanged
          /\ response.message =
               IF post_data.parent \in {None, 0}
               THEN "There is already a category with that name"
               ELSE IF post_data.parent \notin DOMAIN before.Category
               THEN "Requested parent category doesn't exist"
               ELSE IF before.Category[post_data.parent].level + 1
                          >= CATEGORIES_MAX_TREE_DEPTH
               THEN "Invalid category nesting depth level"
               ELSE "There is already a category with that name"
    /\ RenameRanWithTakenName => DuplicateNameError

\* an add refused for a name held by a category that is no sibling-to-be
C9_Witness ==
    /\ AddRanWithTakenName
    /\ post_data.parent \in DOMAIN before.Category
    /\ \E c \in DOMAIN before.Category :
          /\ before.Category[c].name = post_data.name
          /\ before.Category[c].parent # post_data.parent
    /\ response.message = "There is already a category with that name"

\* add_category ran with a name no category holds and a parent of the store
AddRanUnder(parent) ==
    /\ ViewRan("add_category")
    /\ post_data.name # ""
    /\ \A c \in DOMAIN before.Category : before.Category[c].name # post_data.name
    /\ post_data.parent = parent
    /\ parent \in DOMAIN before.Category

\* exactly one row was added, a child of parent with the name asked for
OneChildCreated(parent) ==
    \E new \in CatIds :
        /\ new \notin DOMAIN before.Category
        /\ DOMAIN Category = DOMAIN before.Category \cup {new}
        /\ Category[new].name = post_data.name
        /\ Category[new].parent = parent
        /\ Category[new].level = before.Category[parent].level + 1
        /\ \A c \in DOMAIN before.Category : Category[c] = before.Category[c]
        /\ tag_categories = before.tag_categories

\* C10: an administrator's add_category with a non-empty unused name and an
\* existing parent at level L fails with 'Invalid category nesting depth
\* level', creating nothing, if and only if L + 1 >= CATEGORIES_MAX_TREE_DEPTH;
\* otherwise exactly one category is created, as a child of that parent.
C10_DepthBoundary ==
    \A parent \in CatIds :
        AddRanUnder(parent)
        => IF before.Category[parent].level + 1 >= CATEGORIES_MAX_TREE_DEPTH
           THEN /\ response.status = "error"
                /\ response.message = "Invalid category nesting depth level"
                /\ StoreUnchanged
           ELSE /\ response.status = "success"
                /\ OneChildCreated(parent)

\* an add refused under a parent whose child would be at the maximum depth
C10_Witness ==
    \E parent \in CatIds :
        /\ AddRanUnder(parent)
        /\ before.Category[parent].level + 1 = CATEGORIES_MAX_TREE_DEPTH
        /\ response.status = "error"

\* ===================================================================
\* Access: the feature flag, the transport, the method and the role.
\* ===================================================================
MutatingViews ==
    {"add_category", "rename_category", "add_tag_to_category",
     "remove_tag_from_category", "delete_category"}

\* the store as two steps see it
StoreKept ==
    /\ Category' = Category
    /\ tag_categories' = tag_categories

\* C11: while the feature flag is off, add_category, rename_category,
\* add_tag_to_category, remove_tag_from_category, delete_category,
\* get_categories and the tree page answer not-found and nothing else,
\* whatever the user, the transport, the method and the body, and no step
\* changes the store, the step that switches the flag on included; with the
\* flag on none of them answers not-found.
C11_FeatureOffNotFound ==
    /\ [](/\ pc = "done"
          /\ request.view \in MutatingViews \cup {"get_categories", "cats"}
          => IF ~ENABLE_CATEGORIES
             THEN response = Http(404) /\ StoreUnchanged
             ELSE response.http # 404)
    /\ [][~ENABLE_CATEGORIES => StoreKept]_vars

\* with the flag off, an administrator's AJAX POST that would add a root to
\* a store that holds a tagged category is answered not-found
C11_Witness ==
    /\ pc = "done"
    /\ ~ENABLE_CATEGORIES
    /\ request = [view |-> "add_category", user |-> "administrator",
                  ajax |-> TRUE, method |-> "POST"]
    /\ post_data.name # ""
    /\ post_data.parent = None
    /\ ~name_exists(before.Category, post_data.name)
    /\ before.tag_categories # {}
    /\ response.http = 404

GetTagCategoriesRan ==
    /\ pc = "done"
    /\ request.view = "get_tag_categories"

\* C12 (as stated): with the feature flag off get_tag_categories does not
\* answer 404, and it answers an AJAX POST with its success or error envelope.
C12_PublishedWhenOff ==
    (GetTagCategoriesRan /\ ~ENABLE_CATEGORIES)
    => /\ response.http # 404
       /\ (request.ajax /\ request.method = "POST")
          => response.status \in {"success", "error"}

\* C12 (amended): get_tag_categories is not excepted from the
\* feature-disabled rule. With the flag off it answers 404 like the other
\* operations, whatever the user, the transport, the method and the body;
\* with the flag on it answers an AJAX POST of any user, anonymous included,
\* with 'success' and the categories of the tag, or with the error envelope
\* when the tag id is missing or unknown. It never changes the store.
C12_NotFoundWhenOff ==
    GetTagCategoriesRan
    => /\ StoreUnchanged
       /\ IF ~ENABLE_CATEGORIES
          THEN response = Http(404)
          ELSE (request.ajax /\ request.method = "POST")
               => IF post_data.tag_id \in TagIds
                  THEN /\ response.status = "success"
                       /\ {c.id : c \in response.body} =
                            {c \in DOMAIN Category :
                                <<post_data.tag_id, c>> \in tag_categories}
                  ELSE /\ response.status = "error"
                       /\ response.message # ""

\* with the flag off, an anonymous AJAX POST for a tag that has a category
C12_Witness ==
    /\ GetTagCategoriesRan
    /\ ~ENABLE_CATEGORIES
    /\ request.user = "anonymous"
    /\ request.ajax
    /\ request.method = "POST"
    /\ \E c \in DOMAIN Category : <<post_data.tag_id, c>> \in tag_categories
    /\ response.http = 404

AdminViews ==
    {"add_category", "rename_category", "add_tag_to_category", "delete_category"}

\* a request to one of the administrator's views by somebody else
OtherUserAsked ==
    /\ pc = "done"
    /\ request.view \in AdminViews
    /\ request.user # "administrator"

\* C13 (as stated): an add_category, rename_category, add_tag_to_category or
\* delete_category request of an anonymous user, a plain user or a moderator
\* returns status 'error' and leaves the categories and the associations
\* unchanged.
C13_OthersAlwaysGetError ==
    OtherUserAsked
    => /\ response.status = "error"
       /\ StoreUnchanged

\* C13 (amended): such a request never changes the categories, their names
\* and parents or the associations; it returns status 'error' when it comes
\* over AJAX while the feature is on, and otherwise what precedes the role
\* check: not-found while the feature is off, the redirect when it does not
\* come over AJAX.
C13_OnlyAdministratorChanges ==
    OtherUserAsked
    => /\ StoreUnchanged
       /\ IF ~ENABLE_CATEGORIES THEN response.http = 404
          ELSE IF ~request.ajax THEN response.http = 302
          ELSE response.status = "error" /\ response.message # ""

\* a moderator's AJAX POST that would add a root category, refused
C13_Witness ==
    /\ OtherUserAsked
    /\ ENABLE_CATEGORIES
    /\ request = [view |-> "add_category", user |-> "moderator",
                  ajax |-> TRUE, method |-> "POST"]
    /\ post_data.name # ""
    /\ post_data.parent = None
    /\ ~name_exists(before.Category, post_data.name)
    /\ response.message = "Sorry, but you cannot access this view"

\* an AJAX POST to remove_tag_from_category, the feature being on
RemoveTagAsked ==
    /\ pc = "done"
    /\ request.view = "remove_tag_from_category"
    /\ request.ajax
    /\ request.method = "POST"
    /\ ENABLE_CATEGORIES

\* the pair of the request
AskedPair == <<post_data.tag_id, post_data.cat_id>>

\* C14: the AJAX POST to remove_tag_from_category that names an association
\* of the store succeeds for a moderator and for an administrator and removes
\* it; for a plain user it returns 'error' with 'Sorry, but you cannot access
\* this view', for an anonymous user 'error' with the anonymous-user message,
\* and the association stays.
C14_ModeratorsAndAdministrators ==
    (RemoveTagAsked /\ AskedPair \in before.tag_categories)
    => IF request.user \in {"administrator", "moderator"}
       THEN /\ response.status = "success"
            /\ AskedPair \notin tag_categories
       ELSE /\ response.status = "error"
            /\ response.message =
                 IF request.user = "anonymous"
                 THEN "Sorry, but anonymous users cannot access this view"
                 ELSE "Sorry, but you cannot access this view"
            /\ StoreUnchanged
            /\ AskedPair \in tag_categories

\* a plain user asks to remove an association of the store
C14_Witness ==
    /\ RemoveTagAsked
    /\ AskedPair \in before.tag_categories
    /\ request.user = "user"
    /\ response.status = "error"

\* remove_tag_from_category ran for a moderator or an administrator on a
\* category and a tag that exist
RemoveTagRan ==
    /\ RemoveTagAsked
    /\ request.user \in {"administrator", "moderator"}
    /\ post_data.cat_id \in DOMAIN before.Category
    /\ post_data.tag_id \in TagIds

\* C15: an authorized remove_tag_from_category on an existing category and
\* tag removes exactly their association and answers 'success' if it exists,
\* and answers 'noop' and changes nothing if it does not; after a success the
\* pair is not associated, so the same request repeated finds it absent and
\* gets 'noop'. The categories and all other associations stay as they were
\* (no view writes a Tag row).
C15_RemoveExactlyThePair ==
    RemoveTagRan
    => IF AskedPair \in before.tag_categories
       THEN /\ response.status = "success"
            /\ tag_categories = before.tag_categories \ {AskedPair}
            /\ Category = before.Category
       ELSE /\ response.status = "noop"
            /\ StoreUnchanged

\* a moderator removes one of the two categories of a tag
C15_Witness ==
    /\ RemoveTagRan
    /\ request.user = "moderator"
    /\ response.status = "success"
    /\ \E c \in DOMAIN Category :
          /\ c # post_data.cat_id
          /\ <<post_data.tag_id, c>> \in tag_categories

\* a request to a mutating view, the feature being on
MutationAsked ==
    /\ pc = "done"
    /\ request.view \in MutatingViews
    /\ ENABLE_CATEGORIES

\* the users a mutating view is for
Permitted(view) ==
    IF view = "remove_tag_from_category"
    THEN {"administrator", "moderator"}
    ELSE {"administrator"}

ErrorEnvelope ==
    /\ response.http = 200
    /\ response.status = "error"
    /\ response.message # ""

\* C16 (as stated): a request to a mutating view that does not come over
\* AJAX gets the JSON error envelope, status 'error' with a non-empty
\* message, and changes nothing.
C16_NonAjaxGetsErrorEnvelope ==
    (MutationAsked /\ ~request.ajax)
    => /\ ErrorEnvelope
       /\ StoreUnchanged

\* C16 (amended): a request to a mutating view that does not come over AJAX
\* is answered with a redirect and no JSON body, whatever its method and
\* user; an AJAX request with a wrong method, an unauthenticated user or a
\* wrong role gets the JSON error envelope with a non-empty message. Neither
\* changes the store.
C16_NonAjaxRedirected ==
    MutationAsked
    => IF ~request.ajax
       THEN /\ response = Http(302)
            /\ StoreUnchanged
       ELSE (\/ request.method # "POST"
             \/ request.user \notin Permitted(request.view))
            => /\ ErrorEnvelope
               /\ StoreUnchanged

\* an administrator's POST that would add a root category, sent without the
\* AJAX header
C16_Witness ==
    /\ MutationAsked
    /\ request = [view |-> "add_category", user |-> "administrator",
                  ajax |-> FALSE, method |-> "POST"]
    /\ post_data.name # ""
    /\ post_data.parent = None
    /\ ~name_exists(before.Category, post_data.name)
    /\ response.http = 302

\* ===================================================================
\* Names in responses.
\* ===================================================================
\* the 'cats' list of get_tag_categories carries the names escaped
CatsListEscaped ==
    (GetTagCategoriesRan /\ response.status = "success")
    => \A c \in response.body : c.name = escape(Category[c.id].name)

\* the lines of get_categories carry the names escaped
CategoryLinesEscaped ==
    (pc = "done" /\ request.view = "get_categories" /\ response.http = 200)
    => {response.body[i] : i \in DOMAIN response.body} =
         {escape(Category[c].name) \o "|" \o ToString(c) \o "\n" :
            c \in DOMAIN Category}

\* the 'tags' list of a need_confirmation response carries the names escaped
ConfirmationTagsEscaped ==
    (pc = "done" /\ request.view = "delete_category"
     /\ response.status = "need_confirmation")
    => response.tags = {escape(TagName(t)) : t \in TagsBefore(post_data.id)}

\* C17: every response that carries a category name or a tag name carries it
\* HTML-escaped, never raw: the 'cats' list of get_tag_categories, the lines
\* of get_categories and the 'tags' list of a delete_category
\* 'need_confirmation' response, for any name that holds markup.
C17_NamesEscaped ==
    /\ CatsListEscaped
    /\ CategoryLinesEscaped
    /\ ConfirmationTagsEscaped

\* ===================================================================
\* The tree serializer.
\* ===================================================================
\* the tree page was served
TreeServed ==
    /\ pc = "done"
    /\ request.view = "cats"
    /\ ENABLE_CATEGORIES

\* a node of the structure against the store: its id and name are the stored
\* ones, its children are the direct children of the category, each once and
\* in the order of insertion, and they match in turn
RECURSIVE TreeMatches(_)
TreeMatches(tree) ==
    /\ DOMAIN tree = {"name", "id", "children"}
    /\ tree.id \in DOMAIN Category
    /\ tree.name = Category[tree.id].name
    /\ {tree.children[i].id : i \in DOMAIN tree.children} =
         {c \in DOMAIN Category : Category[c].parent = tree.id}
    /\ \A i \in DOMAIN tree.children, j \in DOMAIN tree.children :
          i < j => tree.children[i].id < tree.children[j].id
    /\ (tree.children = <<>>) <=>
         ~\E c \in DOMAIN Category : Category[c].parent = tree.id
    /\ \A i \in DOMAIN tree.children : TreeMatches(tree.children[i])

\* C18: generate_tree() returns the empty structure when the store holds no
\* category; otherwise it returns a structure that starts at a root and in
\* which every node has the id and the name of the stored category, lists
\* exactly its direct children in the store's order, and has no children if
\* and only if the category is a leaf. The call changes nothing in the store.
C18_TreeMatchesStore ==
    TreeServed
    => /\ StoreUnchanged
       /\ IF DOMAIN Category = {}
          THEN response.body = <<>>
          ELSE /\ response.body # <<>>
               /\ Category[response.body.id].parent = None
               /\ TreeMatches(response.body)

\* the tree of a root with two children
C18_Witness ==
    /\ TreeServed
    /\ response.body # <<>>
    /\ Len(response.body.children) = 2

\* ===================================================================
\* rename_category and add_tag_to_category.
\* ===================================================================
\* rename_category ran for an administrator on a category of the store with
\* a new name
RenameRanOn(id) ==
    /\ ViewRan("rename_category")
    /\ post_data.id = id
    /\ id \in DOMAIN before.Category
    /\ post_data.name # ""

\* C19: an administrator's rename_category of an existing category to a new
\* name answers 'noop' and changes nothing if the name is the current one,
\* answers 'error' and changes nothing if another category holds the name,
\* and otherwise answers 'success' and changes the name of that category
\* only: its id, parent, level, children and tags and every other category
\* stay.
C19_RenameOnlyTheName ==
    \A id \in CatIds :
        RenameRanOn(id)
        => IF post_data.name = before.Category[id].name
           THEN response.status = "noop" /\ StoreUnchanged
           ELSE IF \E c \in DOMAIN before.Category \ {id} :
                      before.Category[c].name = post_data.name
           THEN response.status = "error" /\ StoreUnchanged
           ELSE /\ response.status = "success"
                /\ DOMAIN Category = DOMAIN before.Category
                /\ Category[id].name = post_data.name
                /\ Category[id].parent = before.Category[id].parent
                /\ Category[id].level = before.Category[id].level
                /\ \A c \in DOMAIN Category \ {id} : Category[c] = before.Category[c]
                /\ tag_categories = before.tag_categories

\* a tagged parent renamed
C19_Witness ==
    \E id \in CatIds :
        /\ RenameRanOn(id)
        /\ response.status = "success"
        /\ ChildrenBefore(id) # {}
        /\ TagsBefore(id) # {}
        /\ Category[id].name # before.Category[id].name

\* C20: an administrator's add_tag_to_category looks the category up before
\* the tag: with a cat_id that is present and names no category, 0 included,
\* the error is "Requested category doesn't exist" whether the tag exists or
\* not, never the missing-parameter one. With a category and a tag that
\* exist it answers 'success' and the associations are those it found plus
\* the pair, so the same request repeated answers 'success' and adds nothing.
C20_CategoryBeforeTag ==
    (ViewRan("add_tag_to_category") /\ Truthy(post_data.tag_id)
     /\ post_data.cat_id # None)
    => IF post_data.cat_id \notin DOMAIN before.Category
       THEN /\ response.status = "error"
            /\ response.message = "Requested category doesn't exist"
            /\ StoreUnchanged
       ELSE IF post_data.tag_id \notin TagIds
       THEN /\ response.status = "error"
            /\ response.message = "Requested tag doesn't exist"
            /\ StoreUnchanged
       ELSE /\ response.status = "success"
            /\ tag_categories = before.tag_categories \cup {AskedPair}
            /\ Category = before.Category

\* cat_id 0 with a tag that does not exist either
C20_Witness ==
    /\ ViewRan("add_tag_to_category")
    /\ post_data.cat_id = 0
    /\ post_data.tag_id \notin TagIds
    /\ Truthy(post_data.tag_id)
    /\ response.message = "Requested category doesn't exist"

\* ===================================================================
\* The autocomplete helper.
\* ===================================================================
\* a request to get_categories, the feature being on
GetCategoriesAsked ==
    /\ pc = "done"
    /\ request.view = "get_categories"
    /\ ENABLE_CATEGORIES

\* the line of a category: its name, escaped as C17 has it, and its key
LineFor(c) ==
    escape(before.Category[c].name) \o "|" \o ToString(c) \o "\n"

\* the place of a category's line in the body
LineOf(c) == CHOOSE i \in DOMAIN response.body : response.body[i] = LineFor(c)

\* the body holds one line for each category, the names ascending
ListsEveryCategoryByName ==
    LET C == before.Category
    IN  /\ Len(response.body) = Cardinality(DOMAIN C)
        /\ \A c \in DOMAIN C : \E i \in DOMAIN response.body :
                response.body[i] = LineFor(c)
        /\ \A c, d \in DOMAIN C :
                name_less(C[c].name, C[d].name) => LineOf(c) < LineOf(d)

\* C21: get_categories answers 200 only to a GET sent over AJAX by an
\* authenticated administrator, and the body then lists every category of
\* the store exactly once, one 'name|id' line each, in ascending order of
\* name. A request that is not a GET gets 405 whoever sends it; a GET that
\* is anonymous, from a plain user or a moderator, or not over AJAX gets 403.
\* In no case does the store change.
C21_GetCategories ==
    GetCategoriesAsked
    => /\ StoreUnchanged
       /\ IF request.method # "GET" THEN response.http = 405
          ELSE IF request.user # "administrator" \/ ~request.ajax
          THEN response.http = 403
          ELSE response.http = 200 /\ ListsEveryCategoryByName

\* an administrator's AJAX GET with two categories whose names are not in
\* the order of their keys
C21_Witness ==
    /\ GetCategoriesAsked
    /\ response.http = 200
    /\ \E c, d \in DOMAIN Category :
        /\ c < d
        /\ name_less(Category[d].name, Category[c].name)

\* ===================================================================
\* The content filter.
\* ===================================================================
\* a listing page was asked for
ListingAsked(view) ==
    /\ pc = "done"
    /\ request.view = view

\* the segment of the path; "" when the path has none
Segment == post_data.name

\* the category the path names
Target == CHOOSE c \in DOMAIN Category : Category[c].name = Segment

\* d is c or lies below it: going up from d by parent links meets c
RECURSIVE InSubtree(_, _)
InSubtree(d, c) ==
    \/ d = c
    \/ /\ Category[d].parent # None
       /\ InSubtree(Category[d].parent, c)

\* the questions that carry a tag associated with the category or with a
\* category below it
TaggedInSubtree(c) ==
    {q \in QuestionIds :
        \E t \in question_tags(q), d \in DOMAIN Category :
            InSubtree(d, c) /\ <<t, d>> \in tag_categories}

\* the rows of the page are the elements of `expected`, each once
ListsEachOnce(expected) ==
    /\ {response.body[i] : i \in DOMAIN response.body} = expected
    /\ Len(response.body) = Cardinality(expected)

\* the questions page was filtered by a category of the store
FilteredQuestions ==
    /\ ListingAsked("questions")
    /\ ENABLE_CATEGORIES
    /\ Segment # ""
    /\ name_exists(Category, Segment)

\* C22: filtering the question listing by a category returns exactly the
\* questions that carry at least one tag associated with the category or
\* with any of its descendants, each question once however many of its tags
\* or of the categories lead to it; a question none of whose tags is
\* associated with the subtree is not returned, and the result is empty when
\* the subtree has no tagged question.
C22_FilterBySubtree ==
    FilteredQuestions
    => /\ response.http = 200
       /\ ListsEachOnce(TaggedInSubtree(Target))

\* a question reached through two tags, one on the category and one on a
\* category below it, while another question is left out
C22_Witness ==
    /\ FilteredQuestions
    /\ \E d \in DOMAIN Category \ {Target} :
        /\ Category[d].parent = Target
        /\ <<1, Target>> \in tag_categories
        /\ <<2, d>> \in tag_categories
        /\ <<1, d>> \notin tag_categories
    /\ ListsEachOnce({1, 2, 3})

\* a category whose subtree has no tagged question
C22_WitnessEmpty ==
    /\ FilteredQuestions
    /\ Category[Target].parent # None
    /\ tag_categories # {}
    /\ response.body = <<>>

\* C23: a listing path with a category segment returns not-found when the
\* feature is off or when the name matches no category; a path without the
\* segment returns the full unfiltered listing whether the feature is on or
\* off.
C23_ListingPaths ==
    \A view \in {"questions", "tags"} :
        ListingAsked(view)
        => IF Segment = ""
           THEN /\ response.http = 200
                /\ ListsEachOnce(IF view = "questions" THEN QuestionIds
                                 ELSE {t \in TagIds : used_count(t) > 0})
           ELSE (~ENABLE_CATEGORIES \/ ~name_exists(Category, Segment))
                => response.http = 404

\* the questions page without a segment, the feature being off
C23_Witness ==
    /\ ListingAsked("questions")
    /\ ~ENABLE_CATEGORIES
    /\ Segment = ""
    /\ Category # <<>>
    /\ response.http = 200

\* ===================================================================
\* The shape of the tree.
\* ===================================================================
\* the number of parent links from a category up to its root
RECURSIVE Depth(_)
Depth(c) ==
    IF Category[c].parent = None THEN 0 ELSE 1 + Depth(Category[c].parent)

\* C24: no category is ever created at a level that reaches the maximum
\* depth: starting from a store whose categories all have a level below
\* CATEGORIES_MAX_TREE_DEPTH (the setting fixed and at least 1), after any
\* sequence of add_category, rename_category and delete_category requests
\* every category of the store has a level below the setting, the categories
\* created with no parent included.
C24_LevelsBelowMaxDepth ==
    \A c \in DOMAIN Category :
        /\ Category[c].level = Depth(c)
        /\ Category[c].level < CATEGORIES_MAX_TREE_DEPTH

\* add_category has put a category on the deepest level there is, next to a
\* root created with no parent after the first one
C24_Witness ==
    /\ ViewRan("add_category")
    /\ response.status = "success"
    /\ \E c \in DOMAIN Category \ DOMAIN before.Category :
        Category[c].level = CATEGORIES_MAX_TREE_DEPTH - 1
    /\ \E r \in DOMAIN before.Category :
        /\ Category[r].parent = None
        /\ \E q \in DOMAIN before.Category : q < r

\* ===================================================================
\* What the requests leave in the store.
\* ===================================================================
ApiViews ==
    {"add_category", "rename_category", "add_tag_to_category",
     "remove_tag_from_category", "delete_category", "get_tag_categories"}

\* one of the six views answered 'error'
ErrorAnswered ==
    /\ pc = "done"
    /\ request.view \in ApiViews
    /\ response.status = "error"

NoOrphan ==
    \A c \in DOMAIN Category :
        Category[c].parent # None => Category[c].parent \in DOMAIN Category

\* the rows a request removed
Removed == DOMAIN before.Category \ DOMAIN Category

\* C27: with requests handled one at a time the tree never holds an orphan:
\* the parent of every category that is not a root exists in the store,
\* because add_category attaches only to a parent that exists and
\* delete_category never removes a category that still has a child.
C27_NoOrphan ==
    /\ NoOrphan
    /\ pc = "done"
       => /\ \A c \in DOMAIN Category \ DOMAIN before.Category :
                Category[c].parent \in {None} \cup DOMAIN before.Category
          /\ \A c \in Removed : ChildrenBefore(c) = {}

\* delete_category on a category that has a child: nothing is removed
C27_Witness ==
    /\ ViewRan("delete_category")
    /\ post_data.id \in DOMAIN before.Category
    /\ ChildrenBefore(post_data.id) # {}
    /\ Removed = {}
    /\ \E c \in DOMAIN Category : Category[c].parent = post_data.id

\* C28: with requests handled one at a time every association refers to a
\* category and a tag that exist, and delete_category leaves no association
\* that names the category it removed.
C28_AssociationsRefer ==
    /\ \A p \in tag_categories :
        /\ p[1] \in TagIds
        /\ p[2] \in DOMAIN Category
    /\ pc = "done" => \A c \in Removed : \A t \in TagIds : <<t, c>> \notin tag_categories

\* a confirmed delete_category removed a category that had a tag, while
\* the tag is still associated with another category
C28_Witness ==
    /\ ViewRan("delete_category")
    /\ response.status = "success"
    /\ Removed = {post_data.id}
    /\ \E t \in TagsBefore(post_data.id) :
        \E c \in DOMAIN Category : <<t, c>> \in tag_categories

\* the ids of the nodes of a structure, each as often as it occurs
RECURSIVE NodeIds(_)
RECURSIVE NodeIdsOf(_)
NodeIdsOf(trees) ==
    IF trees = <<>> THEN <<>>
    ELSE NodeIds(Head(trees)) \o NodeIdsOf(Tail(trees))
NodeIds(tree) ==
    IF tree = <<>> THEN <<>>
    ELSE <<tree.id>> \o NodeIdsOf(tree.children)

\* C29: after any sequence of add_category, rename_category and
\* delete_category requests, the structure generate_tree() returns contains
\* every category of the store exactly once; this still holds after
\* add_category has been called with no parent while a root category exists.
C29_TreeHoldsEveryCategory ==
    TreeServed
    => LET ids == NodeIds(response.body)
       IN  /\ {ids[i] : i \in DOMAIN ids} = DOMAIN Category
           /\ Len(ids) = Cardinality(DOMAIN Category)

\* while the store has one root the structure holds every category once
TreeHoldsEveryCategoryOfOneRoot ==
    (TreeServed /\ Cardinality({c \in DOMAIN Category : Category[c].parent = None}) <= 1)
    => LET ids == NodeIds(response.body)
       IN  /\ {ids[i] : i \in DOMAIN ids} = DOMAIN Category
           /\ Len(ids) = Cardinality(DOMAIN Category)

\* ===================================================================
\* Requests handled at the same time.
\* ===================================================================
\* a request between its two steps whose check would fail by now: the other
\* request has altered or removed what it checked
StaleCheck(w) ==
    /\ inflight[w].stage = "checked"
    /\ ~check_step(inflight[w].view, inflight[w].post).passes

\* the request of w takes its second step
Acts(w) ==
    /\ inflight[w].stage = "checked"
    /\ inflight'[w].stage = "done"
    /\ inflight'[w].response.message # "IntegrityError"

\* C25: the check and the mutation of an admin endpoint are two separate
\* steps with no atomicity: when two administrator requests interleave, the
\* second can alter or remove the entity between the check and the mutation
\* of the first, and the first then writes all the same and completes with
\* 'success' (add_category alone looks the name up once more as it writes);
\* so two rename_category requests pass the duplicate-name check for the
\* same name and both complete with 'success'.
C25_CheckThenActRace ==
    [][\A w \in Workers :
        (/\ StaleCheck(w)
         /\ Acts(w)
         /\ inflight[w].view = "add_category"
              => ~name_exists(Category, inflight[w].post.name))
        => inflight'[w].response.status = "success"]_vars

\* two renames of two categories to one name have both answered 'success',
\* and the store holds the name twice
C25_Witness ==
    /\ \A w \in Workers :
        /\ inflight[w].stage = "done"
        /\ inflight[w].view = "rename_category"
        /\ inflight[w].response.status = "success"
    /\ inflight[1].post.name = inflight[2].post.name
    /\ inflight[1].post.id # inflight[2].post.id
    /\ \A w \in Workers :
        /\ inflight[w].post.id \in DOMAIN Category
        /\ Category[inflight[w].post.id].name = inflight[w].post.name

\* every parent and every category of an association is in the store
ReferencesIntact ==
    /\ NoOrphan
    /\ \A p \in tag_categories : p[2] \in DOMAIN Category

\* C30: referential integrity survives the interleaving of a
\* delete_category request with an add_category under the category being
\* deleted or an add_tag_to_category to it: no step of these requests takes
\* a store whose references are intact to one that holds a category whose
\* parent was deleted or an association that names a deleted category.
C30_IntegritySurvivesRaces ==
    [][(/\ ReferencesIntact
        /\ \E w \in Workers :
            /\ inflight[w].view \in
                 {"delete_category", "add_category", "add_tag_to_category"}
            /\ inflight[w].stage = "checked"
            /\ inflight'[w].stage = "done")
       => ReferencesIntact']_vars

====
